---- MODULE Spec2Model ----
(***************************************************************************)
(* Model of WeatherApiTester (src/test_api.py): one tester object, the     *)
(* sequential calls test_weather_api and get_statistics made on it, the    *)
(* in-memory result list and the JSON files of the output directory.       *)
(*                                                                         *)
(* The HTTP transport, the console and the file system are the             *)
(* environment: every call draws the transport outcome (an exception of    *)
(* requests.get, or a response with a status code and a body) and the      *)
(* outcome of print() and of the file write from bounded sets.             *)
(*                                                                         *)
(* Python values: a dict is a function over its keys (a missing key is a   *)
(* key outside DOMAIN), a list is a sequence, None is the value None       *)
(* below, a JSON number n is Num(n) where the model needs to tell it from  *)
(* null or a string (main.temp), and a plain integer elsewhere.            *)
(***************************************************************************)
EXTENDS Integers, Sequences, FiniteSets, TLC

VARIABLES results, files, now, ncalls, returned, saved, call, ret, log, exc

vars == <<results, files, now, ncalls, returned, saved, call, ret, log, exc>>

(***************************************************************************)
(* Bounds                                                                  *)
(***************************************************************************)
MaxCalls == 2
MaxClock == 1

(***************************************************************************)
(* Python values                                                           *)
(***************************************************************************)
None == [type |-> "NoneType"]
Num(n) == [type |-> "number", val |-> n]
EmptyDict == [k \in {} |-> 0]
IsNumber(v) == v.type = "number"
HasKey(d, k) == k \in DOMAIN d
Without(d, k) == [f \in DOMAIN d \ {k} |-> d[f]]

\* No exception pending / the marker of an operation that raised instead of
\* returning.
NoExc == "NoExc"
NoReturn == [type |-> "raised"]
NoLog == [prefix |-> "none"]

(***************************************************************************)
(* Inputs of a call and outcomes of the environment                        *)
(***************************************************************************)
Cities == {"London", "Paris"}
UnitSystems == {"metric", "imperial"}

\* Values the remote side can put under main.temp: numbers, or JSON null.
Temps == {Num(15), Num(-3), None}

\* The success payload of the documented shape, with main.temp = t.
Payload(t) ==
    [main |-> [temp |-> t, feels_like |-> 14, humidity |-> 80,
               pressure |-> 1012, temp_min |-> 13, temp_max |-> 17],
     wind |-> [speed |-> 4],
     weather |-> <<[description |-> "cloudy"]>>,
     sys |-> [country |-> "GB"]]

MainKeys == {"temp", "feels_like", "humidity", "pressure", "temp_min", "temp_max"}

\* Payloads with one required nested field (or the first weather entry) gone.
LackingPayloads ==
    {[Payload(Num(15)) EXCEPT !.main = Without(@, k)] : k \in MainKeys}
    \cup {[Payload(Num(15)) EXCEPT !.wind = Without(@, "speed")],
          [Payload(Num(15)) EXCEPT !.weather = <<[id |-> 803]>>],
          [Payload(Num(15)) EXCEPT !.weather = <<>>]}

\* Payloads whose country is absent: no "sys", a "sys" without "country",
\* and "sys": null.
NoCountryPayloads ==
    {Without(Payload(Num(15)), "sys"),
     [Payload(Num(15)) EXCEPT !.sys = [sunrise |-> 1]],
     [Payload(Num(15)) EXCEPT !.sys = None]}

SuccessPayloads ==
    {Payload(t) : t \in Temps} \cup LackingPayloads \cup NoCountryPayloads

\* Bodies of error responses: with and without the "message" field.
WithMessage == [cod |-> 404, message |-> "city not found"]
NoMessage == [cod |-> 404]

\* What response.json() makes of a body: it raises (the body is not JSON),
\* or yields a value that is no dict (a JSON array), or yields a dict.
NotJson == [json |-> "invalid"]
JsonArray == [json |-> "array"]
JsonObject(d) == [json |-> "object", data |-> d]

\* 204 stands for the statuses other than 200 that raise_for_status lets
\* pass; the others are the statuses of the error table.
StatusCodes == {200, 204, 401, 404, 429, 500, 503}

Response(s, b) == [status_code |-> s, body |-> b]

\* The 200 responses carrying the payloads ps, and the bodies no record can
\* come from.
SuccessResponses(ps) ==
    {Response(200, b) : b \in {JsonObject(d) : d \in ps} \cup {NotJson, JsonArray}}

ErrorResponses ==
    {Response(s, JsonObject(WithMessage)) : s \in StatusCodes \ {200}}
    \cup {Response(s, b) : s \in {204, 404},
            b \in {JsonObject(NoMessage), NotJson}}
    \cup {Response(204, JsonArray)}

\* Outcome of requests.get: it raises, or a response arrives.
Raises(e) == [raised |-> e]
Arrives(r) == [raised |-> NoExc, response |-> r]
TransportFailures == {Raises(e) : e \in {"ConnectionError", "Timeout"}}

NetOutcomes ==
    TransportFailures
    \cup {Arrives(r) : r \in SuccessResponses(SuccessPayloads) \cup ErrorResponses}

\* Seconds that can pass between the two readings of the clock within one
\* call: datetime.now() for the record, then print(), a second
\* response.json() and datetime.now() for the file name.
Elapsed == {0, 1}

\* Outcome of the console and the file system during one call, the class
\* of the exception response.json() raises on a body that is not JSON
\* (requests.exceptions.JSONDecodeError or json.JSONDecodeError, by the
\* version of the requests library), and the time the call takes between
\* its two readings of the clock.
Envs ==
    [print : {"ok", "raises"},
     file : {"ok", "open_fails", "write_fails"},
     json_exc : {"requests.JSONDecodeError", "json.JSONDecodeError"},
     elapsed : Elapsed]

(***************************************************************************)
(* WeatherApiTester: constructor state                                     *)
(***************************************************************************)
\* self.api_key when neither the argument nor OPENWEATHER_API_KEY is given.
api_key == "934bdc5186c2f332efd28b8369302ebd"
base_url == "https://api.openweathermap.org/data/2.5/weather"

(***************************************************************************)
(* Exceptions: the classes the calls of this module can raise              *)
(***************************************************************************)
ExceptionClasses ==
    {"ConnectionError", "Timeout", "HTTPError", "requests.JSONDecodeError",
     "json.JSONDecodeError", "KeyError", "IndexError", "AttributeError",
     "TypeError", "UnicodeEncodeError", "OSError"}

\* isinstance(e, requests.exceptions.RequestException)
IsRequestException(e) ==
    e \in {"ConnectionError", "Timeout", "HTTPError", "requests.JSONDecodeError"}

\* isinstance(e, json.JSONDecodeError)
IsJSONDecodeError(e) ==
    e \in {"requests.JSONDecodeError", "json.JSONDecodeError"}

\* A clause that takes the transport's exceptions only.
ExceptRequestException(e) == IsRequestException(e)

\* The clause "except Exception" of test_weather_api: it takes every
\* exception of the classes above.
ExceptException(e) == e \in ExceptionClasses

(***************************************************************************)
(* _build_params, _make_request                                            *)
(***************************************************************************)
build_params(city, units) == [q |-> city, appid |-> api_key, units |-> units]

\* requests.get(...) followed by response.raise_for_status(), which raises
\* HTTPError for every status code from 400 to 599.
make_request(params, net) ==
    IF net.raised # NoExc THEN Raises(net.raised)
    ELSE IF net.response.status_code >= 400 /\ net.response.status_code < 600
         THEN Raises("HTTPError")
         ELSE Arrives(net.response)

\* response.json(): the parsed body, or the decode error.
ResponseJson(response, env) ==
    IF response.body.json = "invalid"
    THEN [raised |-> env.json_exc]
    ELSE [raised |-> NoExc, value |-> response.body]

IsDict(parsed) == parsed.json = "object"

(***************************************************************************)
(* _handle_error, _handle_exception: the line logged at ERROR level        *)
(***************************************************************************)
error_messages ==
    (401 :> "Authentication error. Please verify your API key.")
    @@ (404 :> "City not found.")
    @@ (429 :> "Too many requests. API limit exceeded.")
    @@ (500 :> "OpenWeatherMap server error.")
    @@ (503 :> "Service temporarily unavailable.")

CannedMessage(status) ==
    IF status \in DOMAIN error_messages THEN error_messages[status]
    ELSE "Unknown error"

\* "Error {code}: {message}. Details: {details}", or without the details
\* when response.json() raises or its value has no .get (the bare except).
handle_error(response, env) ==
    LET j == ResponseJson(response, env)
        head == [prefix |-> "Error", code |-> response.status_code,
                 message |-> CannedMessage(response.status_code)]
    IN  IF j.raised # NoExc \/ ~IsDict(j.value)
        THEN head
        ELSE [prefix |-> "Error", code |-> response.status_code,
              message |-> CannedMessage(response.status_code),
              details |-> IF HasKey(j.value.data, "message")
                          THEN j.value.data.message
                          ELSE "No details available"]

handle_exception(e) ==
    IF IsRequestException(e) THEN [prefix |-> "Connection error", exc |-> e]
    ELSE IF IsJSONDecodeError(e) THEN [prefix |-> "Error decoding JSON response"]
    ELSE [prefix |-> "Unexpected error", exc |-> e]

(***************************************************************************)
(* _process_success_response                                               *)
(***************************************************************************)
\* data.get('sys', {}).get('country', 'N/A')
Country(data) ==
    IF HasKey(data, "sys") /\ HasKey(data.sys, "country")
    THEN data.sys.country
    ELSE "N/A"

\* The first exception the keyword arguments of WeatherData(...) raise, in
\* the order Python evaluates them (country, temperature, humidity,
\* wind_speed, description, pressure, feels_like, temp_min, temp_max), or
\* NoExc: KeyError for a missing key, IndexError for an empty list,
\* AttributeError for .get on a value that is no dict.
ExtractionError(parsed) ==
    IF ~IsDict(parsed) THEN "AttributeError"
    ELSE LET data == parsed.data
             MainLacks(k) == ~HasKey(data, "main") \/ ~HasKey(data.main, k)
         IN  IF HasKey(data, "sys") /\ data.sys = None THEN "AttributeError"
             ELSE IF MainLacks("temp") THEN "KeyError"
             ELSE IF MainLacks("humidity") THEN "KeyError"
             ELSE IF ~HasKey(data, "wind") \/ ~HasKey(data.wind, "speed")
                  THEN "KeyError"
             ELSE IF ~HasKey(data, "weather") THEN "KeyError"
             ELSE IF Len(data.weather) = 0 THEN "IndexError"
             ELSE IF ~HasKey(data.weather[1], "description") THEN "KeyError"
             ELSE IF MainLacks("pressure") THEN "KeyError"
             ELSE IF MainLacks("feels_like") THEN "KeyError"
             ELSE IF MainLacks("temp_min") THEN "KeyError"
             ELSE IF MainLacks("temp_max") THEN "KeyError"
             ELSE NoExc

\* WeatherData(city=city, country=..., ..., timestamp=datetime.now())
WeatherData(city, data, t) ==
    [city |-> city,
     country |-> Country(data),
     temperature |-> data.main.temp,
     humidity |-> data.main.humidity,
     wind_speed |-> data.wind.speed,
     description |-> data.weather[1].description,
     pressure |-> data.main.pressure,
     feels_like |-> data.main.feels_like,
     temp_min |-> data.main.temp_min,
     temp_max |-> data.main.temp_max,
     timestamp |-> t]

\* _print_weather_data: print() of lines with non-ASCII characters; it
\* raises when the console cannot take them.
print_weather_data(wd, env) ==
    IF env.print = "ok" THEN NoExc ELSE "UnicodeEncodeError"

\* A variant that fills the fields it cannot find with defaults and appends
\* that record before it gives up.
process_success_response_partial(rs, response, city, t, env) ==
    LET j == ResponseJson(response, env)
    IN  IF j.raised # NoExc THEN [raised |-> j.raised, results |-> rs]
        ELSE IF ExtractionError(j.value) # NoExc
        THEN [raised |-> ExtractionError(j.value),
              results |-> Append(rs, WeatherData(city, Payload(None), t))]
        ELSE LET wd == WeatherData(city, j.value.data, t)
                 appended == Append(rs, wd)
             IN  IF print_weather_data(wd, env) # NoExc
                 THEN [raised |-> print_weather_data(wd, env),
                       results |-> appended]
                 ELSE [raised |-> NoExc, value |-> wd, results |-> appended]

\* The record is appended to the list before it is printed.
process_success_response(rs, response, city, t, env) ==
    LET j == ResponseJson(response, env)
    IN  IF j.raised # NoExc THEN [raised |-> j.raised, results |-> rs]
        ELSE IF ExtractionError(j.value) # NoExc
        THEN [raised |-> ExtractionError(j.value), results |-> rs]
        ELSE LET wd == WeatherData(city, j.value.data, t)
                 appended == Append(rs, wd)
             IN  IF print_weather_data(wd, env) # NoExc
                 THEN [raised |-> print_weather_data(wd, env),
                       results |-> appended]
                 ELSE [raised |-> NoExc, value |-> wd, results |-> appended]

(***************************************************************************)
(* _save_response_to_file                                                  *)
(***************************************************************************)
\* f"weather_data_{city}_{timestamp}.json", the timestamp to the second.
FileName(city, t) == [city |-> city, timestamp |-> t]

Complete(data) == [complete |-> TRUE, data |-> data]
Truncated == [complete |-> FALSE]

\* open(name, 'w') and the write: a file of that name is replaced.
Written(fs, name, content) ==
    {f \in fs : f.name # name} \cup {[name |-> name, content |-> content]}

\* mkdir or open fails (nothing is written), or json.dump fails after
\* open(..., 'w') created or emptied the file, or the file is written.
save_response_to_file(fs, city, data, t, env) ==
    IF env.file = "open_fails" THEN [raised |-> "OSError", files |-> fs]
    ELSE IF env.file = "write_fails"
    THEN [raised |-> "OSError",
          files |-> Written(fs, FileName(city, t), Truncated)]
    ELSE [raised |-> NoExc,
          files |-> Written(fs, FileName(city, t), Complete(data))]

(***************************************************************************)
(* get_statistics                                                          *)
(***************************************************************************)
\* sum(temps): the left fold 0 + temps[1] + ... ; max(temps), min(temps):
\* one pass keeping the best element seen.
RECURSIVE SumTo(_, _)
SumTo(temps, n) == IF n = 0 THEN 0 ELSE SumTo(temps, n - 1) + temps[n].val
PySum(temps) == SumTo(temps, Len(temps))

RECURSIVE MaxTo(_, _)
MaxTo(temps, n) ==
    IF n = 1 THEN temps[1].val
    ELSE LET best == MaxTo(temps, n - 1)
         IN  IF temps[n].val > best THEN temps[n].val ELSE best

PyMax(temps) == MaxTo(temps, Len(temps))

RECURSIVE MinTo(_, _)
MinTo(temps, n) ==
    IF n = 1 THEN temps[1].val
    ELSE LET best == MinTo(temps, n - 1)
         IN  IF temps[n].val < best THEN temps[n].val ELSE best
PyMin(temps) == MinTo(temps, Len(temps))

\* a / b of Python, kept exact as the fraction num/den.
TrueDiv(a, b) == [num |-> a, den |-> b]

\* The dict of statistics, {} for an empty list; sum(temps) raises
\* TypeError when a temperature is no number (0 + None).
get_statistics(rs) ==
    IF Len(rs) = 0 THEN [raised |-> NoExc, value |-> EmptyDict]
    ELSE LET temps == [i \in 1..Len(rs) |-> rs[i].temperature]
         IN  IF \E i \in 1..Len(temps) : ~IsNumber(temps[i])
             THEN [raised |-> "TypeError"]
             ELSE [raised |-> NoExc,
                   value |->
                     [average_temperature |-> TrueDiv(PySum(temps), Len(temps)),
                      max_temperature |-> PyMax(temps),
                      min_temperature |-> PyMin(temps),
                      total_cities_tested |-> Len(rs),
                      successful_tests |->
                        Cardinality({i \in 1..Len(rs) :
                                        rs[i].temperature # None})]]

(***************************************************************************)
(* State and operations                                                    *)
(*   results  self.results                                                 *)
(*   files    the files of the directory weather_data                      *)
(*   now      the clock datetime.now() reads, in seconds                   *)
(*   ncalls   the number of test_weather_api calls so far                  *)
(*   returned the records those calls returned to their caller, in order   *)
(*   saved    how many of them were made with save_to_file = True and      *)
(*            returned a record                                            *)
(*   call     the operation performed last, with its arguments and the     *)
(*            transport outcome it met                                     *)
(*   ret      what that operation returned (NoReturn when it raised)       *)
(*   log      the line it logged at ERROR level (NoLog when none)          *)
(*   exc      the exception it let escape to its caller (NoExc when none)  *)
(***************************************************************************)
\* No operation in progress: the caller is between two statements.
Idle == [op |-> "idle"]

Init ==
    /\ results = <<>>
    /\ files = {}
    /\ now = 0
    /\ ncalls = 0
    /\ returned = <<>>
    /\ saved = 0
    /\ call = Idle
    /\ ret = None
    /\ log = NoLog
    /\ exc = NoExc

\* The try block of test_weather_api (lines 70-78): what it raised, the
\* value it returned, the line _handle_error logged, the result list and
\* files it leaves behind, and the clock when it ends.  The record takes
\* the clock as the call finds it; the file name takes a second reading,
\* env.elapsed seconds later.
TryBlock(params, city, save_to_file, net, env) ==
    LET req == make_request(params, net)
    IN  IF req.raised # NoExc
        THEN [raised |-> req.raised, results |-> results, files |-> files,
              now |-> now]
        ELSE IF req.response.status_code = 200
        THEN LET p == process_success_response(results, req.response, city, now, env)
             IN  IF p.raised # NoExc
                 THEN [raised |-> p.raised, results |-> p.results, files |-> files,
                       now |-> now]
                 ELSE IF save_to_file
                 THEN LET w == save_response_to_file(files, city,
                                   ResponseJson(req.response, env).value.data,
                                   now + env.elapsed, env)
                      IN  IF w.raised # NoExc
                          THEN [raised |-> w.raised, results |-> p.results,
                                files |-> w.files, now |-> now + env.elapsed]
                          ELSE [raised |-> NoExc, value |-> p.value,
                                log |-> NoLog, results |-> p.results,
                                files |-> w.files, now |-> now + env.elapsed]
                 ELSE [raised |-> NoExc, value |-> p.value, log |-> NoLog,
                       results |-> p.results, files |-> files, now |-> now]
        ELSE [raised |-> NoExc, value |-> None,
              log |-> handle_error(req.response, env),
              results |-> results, files |-> files, now |-> now]

\* test_weather_api(city, units, save_to_file): the try block, and the
\* clause "except Exception" that logs the exception and returns None.
TestWeatherApi(city, units, save_to_file, net, env) ==
    /\ call = Idle
    /\ ncalls < MaxCalls
    /\ now + env.elapsed <= MaxClock
    /\ \E t \in {TryBlock(build_params(city, units), city, save_to_file,
                          net, env)} :
       LET caught == t.raised # NoExc /\ ExceptException(t.raised)
           value == IF t.raised = NoExc THEN t.value
                    ELSE IF caught THEN None ELSE NoReturn
       IN  /\ results' = t.results
           /\ files' = t.files
           /\ now' = t.now
           /\ ret' = value
           /\ log' = IF t.raised = NoExc THEN t.log
                     ELSE IF caught THEN handle_exception(t.raised) ELSE NoLog
           /\ exc' = IF t.raised # NoExc /\ ~caught THEN t.raised ELSE NoExc
           /\ call' = [op |-> "test_weather_api", city |-> city,
                       save_to_file |-> save_to_file, net |-> net]
           /\ ncalls' = ncalls + 1
           /\ returned' = IF value \in {None, NoReturn} THEN returned
                          ELSE Append(returned, value)
           /\ saved' = IF save_to_file /\ value \notin {None, NoReturn}
                       THEN saved + 1 ELSE saved

\* get_statistics(): reads self.results.
GetStatistics ==
    /\ call = Idle
    /\ LET s == get_statistics(results)
       IN  /\ ret' = IF s.raised = NoExc THEN s.value ELSE NoReturn
           /\ exc' = s.raised
    /\ call' = [op |-> "get_statistics"]
    /\ log' = NoLog
    /\ UNCHANGED <<results, files, now, ncalls, returned, saved>>

\* The caller moves on to its next statement: the arguments and the value
\* of the finished operation go out of scope (main drops the value of
\* test_weather_api and goes to the next city). An exception that escaped
\* ends the caller instead.
Proceed ==
    /\ call # Idle
    /\ exc = NoExc
    /\ call' = Idle
    /\ ret' = None
    /\ log' = NoLog
    /\ UNCHANGED <<results, files, now, ncalls, returned, saved, exc>>

\* A second passes between two statements of the caller, or while the
\* next call waits for its response, before it reads the clock.
Tick ==
    /\ call = Idle
    /\ now < MaxClock
    /\ now' = now + 1
    /\ UNCHANGED <<results, files, ncalls, returned, saved, call, ret, log, exc>>

\* The environment outcomes a call can tell apart: print() runs only once a
\* record was built, the file is written and the clock read a second time
\* only after that and on request, and the class of the decode error shows
\* only when a 200 body is parsed.
\* An outcome the call never consults is left at its first value.
Consults(save_to_file, net, env) ==
    LET parsed == net.raised = NoExc /\ net.response.status_code = 200
        built == /\ parsed
                 /\ net.response.body.json # "invalid"
                 /\ ExtractionError(net.response.body) = NoExc
    IN  /\ env.json_exc # "requests.JSONDecodeError"
            => parsed /\ net.response.body.json = "invalid"
        /\ env.print # "ok" => built
        /\ env.file # "ok" => built /\ save_to_file /\ env.print = "ok"
        /\ env.elapsed # 0 => built /\ save_to_file /\ env.print = "ok"

\* The environment outcomes to draw for a call with the given flag and
\* transport outcome.
Consulted ==
    [save_to_file \in BOOLEAN, net \in NetOutcomes |->
        {e \in Envs : Consults(save_to_file, net, e)}]

\* A call of test_weather_api with any of the arguments, transport outcomes
\* and environment outcomes defined above.
Calls ==
    /\ call = Idle
    /\ ncalls < MaxCalls
    /\ \E save_to_file \in BOOLEAN, net \in NetOutcomes :
          \E env \in Consulted[save_to_file, net] :
             \E city \in Cities, units \in UnitSystems :
                TestWeatherApi(city, units, save_to_file, net, env)

Next ==
    \/ Calls
    \/ GetStatistics
    \/ Proceed
    \/ Tick

Spec == Init /\ [][Next]_vars


(***************************************************************************)
(* Properties                                                              *)
(***************************************************************************)
\* A test_weather_api call has just finished, resp. has just finished on a
\* response of status 200 whose body is a JSON object.
CallDone == call.op = "test_weather_api"
Got(status) ==
    CallDone /\ call.net.raised = NoExc
    /\ call.net.response.status_code = status
Got200Object == Got(200) /\ call.net.response.body.json = "object"
Data == call.net.response.body.data

\* The step is a call of test_weather_api, resp. of get_statistics.
CallStep == call = Idle /\ call'.op = "test_weather_api"
StatisticsStep == call = Idle /\ call'.op = "get_statistics"

\* Every required nested field of the payload is there.
RequiredPresent(d) ==
    /\ HasKey(d, "main") /\ \A k \in MainKeys : HasKey(d.main, k)
    /\ HasKey(d, "wind") /\ HasKey(d.wind, "speed")
    /\ HasKey(d, "weather") /\ Len(d.weather) >= 1
    /\ HasKey(d.weather[1], "description")

CountryPresent(d) ==
    HasKey(d, "sys") /\ d.sys # None /\ HasKey(d.sys, "country")

IsRecord(v) == DOMAIN v =
    {"city", "country", "temperature", "humidity", "wind_speed",
     "description", "pressure", "feels_like", "temp_min", "temp_max",
     "timestamp"}

\* C1: a response with one of the statuses of the error table (401, 404,
\* 429, 500, 503) makes the call return None and report an error tagged
\* with that status and the canned message of the table, with the remote
\* "message" as details when the body has one; never a connection error.
C1_ErrorStatusReported ==
    \A s \in DOMAIN error_messages :
        Got(s) =>
            /\ ret = None
            /\ log.prefix = "Error"
            /\ log.code = s
            /\ log.message = error_messages[s]
            /\ (/\ call.net.response.body.json = "object"
                /\ HasKey(Data, "message"))
                    => HasKey(log, "details") /\ log.details = Data.message

\* C2: no partial results: a call that returns None leaves self.results as
\* it was before the call, whatever the point at which the call failed.
C2_NoPartialResults ==
    [][(CallStep /\ ret' = None) => results' = results]_vars

\* C3: a 200 response whose JSON object lacks a required nested field (an
\* empty "weather" array included) makes the call return None; no record
\* is built or appended and no file is written.
C3_MissingFieldYieldsNothing ==
    [][(CallStep /\ Got200Object' /\ ~RequiredPresent(Data'))
        => /\ ret' = None
           /\ exc' = NoExc
           /\ results' = results
           /\ returned' = returned
           /\ files' = files]_vars

\* A call with save_to_file = True met an empty "weather" array after an
\* earlier call had appended a record.
C3_Witness ==
    /\ Got200Object
    /\ ~RequiredPresent(Data)
    /\ Data.weather = <<>>
    /\ call.save_to_file
    /\ ret = None
    /\ Len(results) = 1
    /\ log = [prefix |-> "Unexpected error", exc |-> "IndexError"]

\* C4: on a well-formed 200 payload (every required field and a country)
\* the call returns a record whose city is the city argument of the call
\* and whose other fields equal the payload fields they are mapped from
\* (country = sys.country).
C4_FieldsMapped ==
    (Got200Object /\ RequiredPresent(Data) /\ CountryPresent(Data)) =>
        /\ IsRecord(ret)
        /\ ret.city = call.city
        /\ ret.country = Data.sys.country
        /\ ret.temperature = Data.main.temp
        /\ ret.feels_like = Data.main.feels_like
        /\ ret.humidity = Data.main.humidity
        /\ ret.pressure = Data.main.pressure
        /\ ret.temp_min = Data.main.temp_min
        /\ ret.temp_max = Data.main.temp_max
        /\ ret.wind_speed = Data.wind.speed
        /\ ret.description = Data.weather[1].description

\* C5: a 200 payload with every required field and no country (no "sys",
\* "sys" without "country", "sys": null) yields a record whose country is
\* the placeholder "unknown", appended to self.results.
C5_AbsentCountryPlaceholder ==
    (Got200Object /\ RequiredPresent(Data) /\ ~CountryPresent(Data)) =>
        /\ IsRecord(ret)
        /\ ret.country = "unknown"
        /\ results # <<>>
        /\ results[Len(results)] = ret

\* C6: self.results is exactly the sequence of the records the calls
\* returned, in call order, each once.
C6_ResultsAreReturnedRecords == results = returned

\* The sum and the set of the temperatures of a list of records with
\* numeric temperatures, by the definitions of sum and set.
RECURSIVE SumOfTemperatures(_)
SumOfTemperatures(rs) ==
    IF rs = <<>> THEN 0
    ELSE Head(rs).temperature.val + SumOfTemperatures(Tail(rs))
Temperatures(rs) == {rs[i].temperature.val : i \in 1..Len(rs)}
PresentTemperature(r) == r.temperature # None

\* C7: get_statistics leaves self.results as it is; on the empty list it
\* returns the empty mapping; on every list of N >= 1 records it returns
\* average = sum/N, the maximum and the minimum of the temperatures,
\* total_cities_tested = N and successful_tests = the number of records
\* whose temperature is present.
C7_Statistics ==
    [][StatisticsStep =>
        /\ results' = results
        /\ results = <<>> => exc' = NoExc /\ ret' = EmptyDict
        /\ results # <<>> =>
            /\ exc' = NoExc
            /\ DOMAIN ret' = {"average_temperature", "max_temperature",
                              "min_temperature", "total_cities_tested",
                              "successful_tests"}
            /\ ret'.total_cities_tested = Len(results)
            /\ ret'.successful_tests
                 = Len(SelectSeq(results, PresentTemperature))
            /\ ret'.average_temperature.den # 0
            /\ ret'.average_temperature.num * Len(results)
                 = SumOfTemperatures(results) * ret'.average_temperature.den
            /\ ret'.max_temperature \in Temperatures(results)
            /\ \A x \in Temperatures(results) : x <= ret'.max_temperature
            /\ ret'.min_temperature \in Temperatures(results)
            /\ \A x \in Temperatures(results) : x >= ret'.min_temperature]_vars

\* C8: whatever the transport, the body, the console and the file system
\* do, test_weather_api returns a record or None and lets no exception
\* escape, so its caller can go on to the next city.
C8_NoExceptionEscapes ==
    CallDone => /\ exc = NoExc
                /\ ret = None \/ IsRecord(ret)
                /\ ENABLED Proceed

\* The first call built its record and then failed (print() or the file
\* write raised) and returned None; the second call returned a record.
C8_Witness ==
    /\ CallDone
    /\ ncalls = 2
    /\ Len(results) = 2
    /\ returned = <<ret>>
    /\ IsRecord(ret)
    /\ exc = NoExc

\* C9: get_statistics never raises: on every result list the calls can
\* build it returns a mapping.
C9_StatisticsNeverRaises ==
    call.op = "get_statistics" => exc = NoExc /\ ret # NoReturn

\* C10: the output directory holds exactly one file, completely written,
\* per call that was made with save_to_file = True and returned a record,
\* and no other file.
C10_OneFilePerSavedCall ==
    /\ Cardinality(files) = saved
    /\ \A f \in files : f.content.complete

====
